---- MODULE Spec2Model ----
(***************************************************************************)
(* Push-to-toggle dictation: the orchestrator (app/main.py MainApp), the   *)
(* capture buffer (app/recorder.py Recorder), the recognition invoker      *)
(* (app/transcriber.py Transcriber) and the output sink                    *)
(* (app/clipboard_win.py).  Threads are the hotkey listener thread, one    *)
(* thread per widget click (app/gui.py on_click), the recognition worker   *)
(* threads and the audio callback.                                         *)
(***************************************************************************)
EXTENDS Integers, Sequences, FiniteSets, TLC

\* ---------------------------------------------------------------- bounds
MaxClickThreads == 1
MaxWorkers == 2
MaxBlocks == 1
MaxFiles == 2
MaxOrphans == 1

\* ------------------------------------------------------ program constants
IDLE == "IDLE"
RECORDING == "RECORDING"
TRANSCRIBING == "TRANSCRIBING"
Phases == {IDLE, RECORDING, TRANSCRIBING}

silence_threshold == 500

\* ---------------------------------------------------------------- threads
HotkeyThread == <<"hotkey", 0>>
ClickThreads == {<<"click", i>> : i \in 1..MaxClickThreads}
Threads == {HotkeyThread} \cup ClickThreads
Workers == {<<"worker", i>> : i \in 1..MaxWorkers}
NoOwner == <<"free", 0>>

NoFile == 0
FileIds == 1..MaxFiles

\* One sample block delivered by the audio callback, as the int16 sample
\* that decides its peak: silent, below, at and above the threshold.
Samples == {0, -(silence_threshold - 1), silence_threshold, -(silence_threshold + 1)}

VARIABLES
    state,              \* MainApp.state
    lock,               \* owner of MainApp.lock
    pc,                 \* position of each trigger thread inside on_hotkey
    seen,               \* phase the trigger read under the lock
    startOutcome,       \* how recorder.start() ended for this trigger
    stopOutcome,        \* how recorder.stop() ended for this trigger
    audio_file,         \* local audio_file of stop_and_transcribe
    did,                \* effects of this trigger so far
    is_recording,       \* Recorder.is_recording
    stream,             \* Recorder.stream
    orphans,            \* streams opened, never closed, no longer referenced
    frames,             \* Recorder.frames
    files,              \* rec_*.wav files present in temp_dir
    wpc,                \* position of each recognition worker
    wfile,              \* audio_file argument of _transcribe_task
    wtext,              \* text returned by transcribe
    wresult,            \* how transcribe ended
    wspawns,            \* engine processes spawned by this worker
    wdialog,            \* error dialog shown by this worker
    wraised,            \* an exception is propagating out of the try body
    wsink,              \* output sink effects of this worker
    wcalls,             \* output sink functions this worker called, in order
    wcleaned,           \* what cleanup_file did: "no", "removed", "failed"
    cli_exists,         \* os.path.exists(cli_path), fixed for the run
    model_exists,       \* os.path.exists(model_path), fixed for the run
    cli_error_shown,    \* Transcriber._cli_error_shown
    model_error_shown,  \* Transcriber._model_error_shown
    cliNotices,         \* whisper_not_found dialogs requested so far
    modelNotices,       \* model_not_found dialogs requested so far
    cliMissSeen,        \* some attempt found the engine missing
    auto_paste,         \* current_settings.auto_paste
    notified,           \* phase last pushed to tray icon and widget
    \* HotkeyListener (app/hotkey_win.py)
    hk_pc,              \* position of the listener thread inside run()
    running,            \* HotkeyListener.running
    vk,                 \* key code parse_hotkey resolved the chord to
    registered,         \* the OS registration is held by the listener thread
    attempts,           \* RegisterHotKey calls made
    queue,              \* the thread's OS message queue
    msg,                \* the message GetMessageW returned last
    posted,             \* messages the OS has posted so far
    taken,              \* WM_HOTKEY messages fetched so far
    calls,              \* on_trigger invocations so far
    raised_at,          \* number of the last on_trigger invocation that raised, 0 if none
    stop_called,        \* stop() has been called
    exit_path,          \* how the message loop was left
    \* output sink on its own (app/clipboard_win.py)
    clipboard,          \* clipboard content
    copies,             \* pyperclip.copy calls that changed the clipboard
    keystrokes,         \* Ctrl+V keystrokes sent
    sink_last,          \* the sink call made last
    sink_n,             \* sink calls made so far
    \* one engine invocation on its own (app/transcriber.py)
    cfg,                \* current_settings as read by transcribe
    cmd,                \* the argument vector
    result,             \* what subprocess.run returned
    outcome,            \* what transcribe returned and reported
    \* Recorder.__init__ on its own (app/recorder.py)
    temp_dir,           \* what self.temp_dir holds when the Recorder is constructed
    rec_pc,             \* position inside Recorder.__init__
    todo,               \* entries of glob("rec_*.wav") not yet visited
    unlinked,           \* entries _cleanup_old_files deleted
    unlink_failed,      \* entries whose unlink raised (logged)
    \* HotkeyListener.parse_hotkey on its own (app/hotkey_win.py)
    hotkey_arg,         \* the hotkey_str argument of HotkeyListener(...)
    hotkey_str,         \* HotkeyListener.hotkey_str
    parsed,             \* what parse_hotkey returned
    \* the Recorder over the capture cycles (app/recorder.py)
    session             \* blocks delivered since the last start() call, until a stop() ends the capture

recorderVars == <<is_recording, stream, orphans, frames, files>>
triggerVars == <<pc, seen, startOutcome, stopOutcome, audio_file, did>>
workerVars == <<wpc, wfile, wtext, wresult, wspawns, wdialog, wraised, wsink, wcalls,
                wcleaned>>
transcriberVars == <<cli_error_shown, model_error_shown, cliNotices, modelNotices, cliMissSeen>>
envVars == <<cli_exists, model_exists, auto_paste>>
appVars == <<state, lock, triggerVars, recorderVars, workerVars, transcriberVars,
             envVars, notified>>
listenerVars == <<hk_pc, running, vk, registered, attempts, queue, msg,
                  posted, taken, calls, raised_at, stop_called, exit_path>>
sinkVars == <<clipboard, copies, keystrokes, sink_last, sink_n>>
engineVars == <<cfg, cmd, result, outcome>>
pruneVars == <<temp_dir, rec_pc, todo, unlinked, unlink_failed>>
parseVars == <<hotkey_arg, hotkey_str, parsed>>
componentVars == <<listenerVars, sinkVars, engineVars, pruneVars, parseVars, session>>
vars == <<appVars, componentVars>>

\* ------------------------------------------------------------- helpers
Abs(x) == IF x < 0 THEN -x ELSE x

Max(S) == CHOOSE m \in S : \A x \in S : x <= m

Least(S) == CHOOSE m \in S : \A x \in S : m <= x

\* ---- text: a str is the sequence of its characters
UpperCase == <<"A", "B", "C", "D", "E", "F", "G", "H", "I", "J", "K", "L", "M",
               "N", "O", "P", "Q", "R", "S", "T", "U", "V", "W", "X", "Y", "Z">>

LowerCase == <<"a", "b", "c", "d", "e", "f", "g", "h", "i", "j", "k", "l", "m",
               "n", "o", "p", "q", "r", "s", "t", "u", "v", "w", "x", "y", "z">>

\* the characters str.strip() removes at both ends
Whitespace == {" ", "\t", "\n", "\r"}

LowerChar(c) ==
    IF \E i \in 1..Len(UpperCase) : UpperCase[i] = c
    THEN LowerCase[CHOOSE i \in 1..Len(UpperCase) : UpperCase[i] = c]
    ELSE c

\* str.lower()
lower(s) == [i \in 1..Len(s) |-> LowerChar(s[i])]

\* `needle in hay`
Contains(hay, needle) ==
    \E i \in 1..(Len(hay) - Len(needle) + 1) :
        SubSeq(hay, i, i + Len(needle) - 1) = needle

RECURSIVE lstrip(_)
lstrip(s) == IF s # <<>> /\ Head(s) \in Whitespace THEN lstrip(Tail(s)) ELSE s

RECURSIVE rstrip(_)
rstrip(s) ==
    IF s # <<>> /\ s[Len(s)] \in Whitespace THEN rstrip(SubSeq(s, 1, Len(s) - 1)) ELSE s

\* str.strip()
strip(s) == rstrip(lstrip(s))

\* str.replace(old, "") for a one-character old
replace(s, old) == SelectSeq(s, LAMBDA c : c # old)

\* the str made of the characters of s
RECURSIVE Join(_)
Join(s) == IF s = <<>> THEN "" ELSE Head(s) \o Join(Tail(s))

Digits == <<"0", "1", "2", "3", "4", "5", "6", "7", "8", "9">>

\* str(n) of an int n >= 0
RECURSIVE StrInt(_)
StrInt(n) == IF n < 10 THEN Digits[n + 1] ELSE StrInt(n \div 10) \o Digits[(n % 10) + 1]

\* str(x) of a float x >= 0 with one decimal, held as its tenths
StrFloat(tenths) == StrInt(tenths \div 10) \o "." \o StrInt(tenths % 10)

\* np.max(np.abs(recording)) over the concatenated blocks
max_amp(fs) == Max({Abs(fs[i]) : i \in 1..Len(fs)})

\* the silence check of Recorder.stop
IsSilent_Inclusive(amp) == amp <= silence_threshold

IsSilent(amp) == amp < silence_threshold

\* primary key of the default chord <ctrl>+<alt>+<shift>+h
VK_H == 72

\* key codes parse_hotkey can resolve a chord to; 0 is no primary key
KeyCodes == {0, VK_H}

\* the listener thread object before run() has executed
ListenerStart ==
    /\ hk_pc = "start"
    /\ running = FALSE
    /\ registered = FALSE
    /\ attempts = 0
    /\ queue = <<>>
    /\ msg = "none"
    /\ posted = 0
    /\ taken = 0
    /\ calls = 0
    /\ raised_at = 0
    /\ stop_called = FALSE
    /\ exit_path = "none"

\* nothing has been handed to the output sink
SinkStart ==
    /\ clipboard = "old"
    /\ copies = 0
    /\ keystrokes = 0
    /\ sink_last = <<"none", "">>
    /\ sink_n = 0

\* Settings() defaults
DefaultCfg ==
    [language |-> <<"j", "a">>, initial_prompt |-> "", carry_initial_prompt |-> FALSE,
     best_of |-> 5, beam_size |-> 5, temperature |-> 0]

\* a CompletedProcess: exit 0, nothing written
NoResult == [raises |-> FALSE, returncode |-> 0, stdout |-> <<>>, stderr |-> <<>>]

\* transcribe has not returned
NoOutcome == [done |-> FALSE, kind |-> "none", text |-> <<>>, reported |-> <<>>]

\* no engine invocation has been made
EngineStart ==
    /\ cmd = <<>>
    /\ outcome = NoOutcome

MaxOld == 3

\* names of the entries temp_dir can hold at construction
OldNames == 1..MaxOld

\* an entry of temp_dir: what it is and how many seconds before now it was
\* last modified
NoEntry == [kind |-> "absent", age |-> 0]

\* temp_dir before a Recorder is constructed over it
PruneStart ==
    /\ rec_pc = "new"
    /\ todo = {}
    /\ unlinked = {}
    /\ unlink_failed = {}

\* Settings.hotkey
DefaultChord ==
    <<"<", "c", "t", "r", "l", ">", "+", "<", "a", "l", "t", ">", "+",
      "<", "s", "h", "i", "f", "t", ">", "+", "h">>

\* parse_hotkey has not returned
NotParsed == [done |-> FALSE, fs_modifiers |-> 0, vk |-> 0]

\* no HotkeyListener has been constructed
ParseStart ==
    /\ hotkey_str = <<>>
    /\ parsed = NotParsed

AppInit ==
    /\ state = IDLE
    /\ lock = NoOwner
    /\ pc = [t \in Threads |-> "idle"]
    /\ seen = [t \in Threads |-> "none"]
    /\ startOutcome = [t \in Threads |-> "none"]
    /\ stopOutcome = [t \in Threads |-> "none"]
    /\ audio_file = [t \in Threads |-> NoFile]
    /\ did = [t \in Threads |-> {}]
    /\ is_recording = FALSE
    /\ stream = "none"
    /\ orphans = 0
    /\ frames = <<>>
    /\ files = {}
    /\ wpc = [w \in Workers |-> "none"]
    /\ wfile = [w \in Workers |-> NoFile]
    /\ wtext = [w \in Workers |-> ""]
    /\ wresult = [w \in Workers |-> "none"]
    /\ wspawns = [w \in Workers |-> 0]
    /\ wdialog = [w \in Workers |-> "none"]
    /\ wraised = [w \in Workers |-> FALSE]
    /\ wsink = [w \in Workers |-> {}]
    /\ wcalls = [w \in Workers |-> <<>>]
    /\ wcleaned = [w \in Workers |-> "no"]
    /\ cli_exists \in BOOLEAN
    /\ model_exists \in BOOLEAN
    /\ cli_error_shown = FALSE
    /\ model_error_shown = FALSE
    /\ cliNotices = 0
    /\ modelNotices = 0
    /\ cliMissSeen = FALSE
    /\ auto_paste \in BOOLEAN
    /\ notified = IDLE

Init ==
    /\ AppInit
    /\ ListenerStart
    /\ vk = VK_H
    /\ SinkStart
    /\ cfg = DefaultCfg
    /\ result = NoResult
    /\ EngineStart
    /\ PruneStart
    /\ temp_dir = [n \in OldNames |-> NoEntry]
    /\ ParseStart
    /\ hotkey_arg = DefaultChord
    /\ session = <<>>

\* ------------------------------------------------------ Recorder (capture)
Unclosed == {"opened", "active", "stopped"}

\* a stream object the recorder drops without closing it
Dropped == IF stream \in Unclosed THEN 1 ELSE 0

\* Recorder.callback: the audio thread appends one block while the stream runs
callback ==
    /\ stream = "active"
    /\ Len(frames) < MaxBlocks
    /\ \E s \in Samples : frames' = Append(frames, s)
    /\ UNCHANGED <<state, lock, triggerVars, is_recording, stream, orphans, files,
                   workerVars, transcriberVars, envVars, componentVars, notified>>

\* the `if self.is_recording: return` guard of Recorder.start
AlreadyStarted_Never == FALSE

AlreadyStarted == is_recording

\* the ways Recorder.start can end: the no-op, success, InputStream() raising,
\* stream.start() raising
StartOutcomes ==
    IF AlreadyStarted THEN {"already"}
    ELSE {"ok", "fail_open"} \cup (IF orphans < MaxOrphans THEN {"fail_start"} ELSE {})

recorder_start(o) ==
    /\ o \in StartOutcomes
    /\ files' = files
    /\ CASE o = "already" ->
              UNCHANGED <<is_recording, stream, orphans, frames>>
         [] o = "ok" ->
              /\ frames' = <<>>
              /\ orphans' = orphans + Dropped
              /\ stream' = "active"
              /\ is_recording' = TRUE
         [] o = "fail_open" ->
              /\ frames' = <<>>
              /\ is_recording' = FALSE
              /\ UNCHANGED <<stream, orphans>>
         [] o = "fail_start" ->
              /\ frames' = <<>>
              /\ orphans' = orphans + Dropped
              /\ stream' = "opened"
              /\ is_recording' = FALSE

\* the ways Recorder.stop(discard) can end
StopOutcomes(discard) ==
    IF ~is_recording THEN {"not_recording"}
    ELSE {"stop_raises", "close_raises"} \cup
         (IF discard THEN {"discard"}
          ELSE IF frames = <<>> THEN {"no_frames"}
          ELSE {"save_raises"} \cup
               (IF IsSilent(max_amp(frames)) THEN {"silent"}
                ELSE IF FileIds \ files # {} THEN {"saved"} ELSE {}))

\* rec_<timestamp>.wav: a name no file in temp_dir has
FreshFile == Least(FileIds \ files)

\* Recorder.stop: the new recorder state and the returned file ("" is NoFile)
recorder_stop(o, discard, ret) ==
    /\ o \in StopOutcomes(discard)
    /\ orphans' = orphans
    /\ CASE o = "not_recording" ->
              /\ ret = NoFile
              /\ UNCHANGED <<is_recording, stream, frames, files>>
         [] o = "stop_raises" ->
              /\ ret = NoFile
              /\ UNCHANGED <<is_recording, stream, frames, files>>
         [] o = "close_raises" ->
              /\ ret = NoFile
              /\ stream' = "stopped"
              /\ UNCHANGED <<is_recording, frames, files>>
         [] o = "discard" ->
              /\ ret = NoFile
              /\ stream' = "closed"
              /\ is_recording' = FALSE
              /\ frames' = <<>>
              /\ files' = files
         [] o \in {"no_frames", "silent", "save_raises"} ->
              /\ ret = NoFile
              /\ stream' = "closed"
              /\ is_recording' = FALSE
              /\ UNCHANGED <<frames, files>>
         [] o = "saved" ->
              /\ ret = FreshFile
              /\ stream' = "closed"
              /\ is_recording' = FALSE
              /\ files' = files \cup {FreshFile}
              /\ frames' = frames

\* ------------------------------------------------- MainApp trigger handling
\* `with self.lock:` can be entered
LockFree_NoLock == TRUE

LockFree == lock = NoOwner

\* the branch on_hotkey takes for the phase it reads
Dispatch_NoIgnore(s) == IF s = RECORDING THEN "stop_and_transcribe" ELSE "start_recording"

Dispatch(s) ==
    CASE s = TRANSCRIBING -> "release"
      [] s = IDLE -> "start_recording"
      [] s = RECORDING -> "stop_and_transcribe"

\* `if not audio_file:` in stop_and_transcribe
NoArtifact_Never(f) == FALSE

NoArtifact(f) == f = NoFile

\* a trigger arrives: WM_HOTKEY on the listener thread, or a widget click
\* starting a thread that runs on_hotkey
Trigger(t) ==
    /\ pc[t] = "idle"
    /\ pc' = [pc EXCEPT ![t] = "wait_lock"]
    /\ UNCHANGED <<state, lock, seen, startOutcome, stopOutcome, audio_file, did,
                   recorderVars, workerVars, transcriberVars, envVars, componentVars, notified>>

Acquire(t) ==
    /\ pc[t] = "wait_lock"
    /\ LockFree
    /\ lock' = t
    /\ pc' = [pc EXCEPT ![t] = "on_hotkey"]
    /\ UNCHANGED <<state, seen, startOutcome, stopOutcome, audio_file, did,
                   recorderVars, workerVars, transcriberVars, envVars, componentVars, notified>>

on_hotkey(t) ==
    /\ pc[t] = "on_hotkey"
    /\ seen' = [seen EXCEPT ![t] = state]
    /\ pc' = [pc EXCEPT ![t] = Dispatch(state)]
    /\ UNCHANGED <<state, lock, startOutcome, stopOutcome, audio_file, did,
                   recorderVars, workerVars, transcriberVars, envVars, componentVars, notified>>

\* start_recording up to and including self.recorder.start()
start_recording(t) ==
    /\ pc[t] = "start_recording"
    /\ \E o \in StartOutcomes :
          /\ recorder_start(o)
          /\ startOutcome' = [startOutcome EXCEPT ![t] = o]
          /\ did' = [did EXCEPT ![t] = @ \cup (IF o \in {"ok", "fail_start"} THEN {"open"} ELSE {})]
    /\ pc' = [pc EXCEPT ![t] = "set_recording"]
    /\ UNCHANGED <<state, lock, seen, stopOutcome, audio_file,
                   workerVars, transcriberVars, envVars, componentVars, notified>>

\* self.state = RECORDING
set_recording(t) ==
    /\ pc[t] = "set_recording"
    /\ state' = RECORDING
    /\ did' = [did EXCEPT ![t] = @ \cup {"phase"}]
    /\ pc' = [pc EXCEPT ![t] = "notify"]
    /\ UNCHANGED <<lock, seen, startOutcome, stopOutcome, audio_file,
                   recorderVars, workerVars, transcriberVars, envVars, componentVars, notified>>

\* stop_and_transcribe up to the test of audio_file
stop_and_transcribe(t) ==
    /\ pc[t] = "stop_and_transcribe"
    /\ \E o \in StopOutcomes(FALSE), f \in FileIds \cup {NoFile} :
          /\ recorder_stop(o, FALSE, f)
          /\ stopOutcome' = [stopOutcome EXCEPT ![t] = o]
          /\ audio_file' = [audio_file EXCEPT ![t] = f]
          /\ pc' = [pc EXCEPT ![t] = IF NoArtifact(f) THEN "set_idle" ELSE "set_transcribing"]
    /\ UNCHANGED <<state, lock, seen, startOutcome, did,
                   workerVars, transcriberVars, envVars, componentVars, notified>>

\* self.state = IDLE (no artifact)
set_idle(t) ==
    /\ pc[t] = "set_idle"
    /\ state' = IDLE
    /\ did' = [did EXCEPT ![t] = @ \cup {"phase"}]
    /\ pc' = [pc EXCEPT ![t] = "notify"]
    /\ UNCHANGED <<lock, seen, startOutcome, stopOutcome, audio_file,
                   recorderVars, workerVars, transcriberVars, envVars, componentVars, notified>>

\* self.state = TRANSCRIBING
set_transcribing(t) ==
    /\ pc[t] = "set_transcribing"
    /\ state' = TRANSCRIBING
    /\ did' = [did EXCEPT ![t] = @ \cup {"phase"}]
    /\ pc' = [pc EXCEPT ![t] = "notify_then_spawn"]
    /\ UNCHANGED <<lock, seen, startOutcome, stopOutcome, audio_file,
                   recorderVars, workerVars, transcriberVars, envVars, componentVars, notified>>

\* the phase update_icon_state reads and hands to the tray icon and the widget
PhaseShown_Stale == notified

PhaseShown == state

\* update_icon_state called by the trigger thread
update_icon_state(t) ==
    /\ pc[t] \in {"notify", "notify_then_spawn"}
    /\ notified' = PhaseShown
    /\ did' = [did EXCEPT ![t] = @ \cup {"notify"}]
    /\ pc' = [pc EXCEPT ![t] = IF pc[t] = "notify" THEN "release" ELSE "spawn"]
    /\ UNCHANGED <<state, lock, seen, startOutcome, stopOutcome, audio_file,
                   recorderVars, workerVars, transcriberVars, envVars, componentVars>>

\* threading.Thread(target=self._transcribe_task, args=(audio_file,)).start()
spawn(t) ==
    /\ pc[t] = "spawn"
    /\ \E w \in Workers :
          /\ wpc[w] = "none"
          /\ \A v \in Workers : (wpc[v] = "none" /\ v # w) => w[2] < v[2]
          /\ wpc' = [wpc EXCEPT ![w] = "transcribe"]
          /\ wfile' = [wfile EXCEPT ![w] = audio_file[t]]
    /\ did' = [did EXCEPT ![t] = @ \cup {"spawn"}]
    /\ pc' = [pc EXCEPT ![t] = "release"]
    /\ UNCHANGED <<state, lock, seen, startOutcome, stopOutcome, audio_file,
                   recorderVars, wtext, wresult, wspawns, wdialog, wraised, wsink, wcalls, wcleaned,
                   transcriberVars, envVars, componentVars, notified>>

\* leaving `with self.lock:`; on_hotkey returns
release(t) ==
    /\ pc[t] = "release"
    /\ lock' = NoOwner
    /\ pc' = [pc EXCEPT ![t] = "idle"]
    /\ seen' = [seen EXCEPT ![t] = "none"]
    /\ startOutcome' = [startOutcome EXCEPT ![t] = "none"]
    /\ stopOutcome' = [stopOutcome EXCEPT ![t] = "none"]
    /\ audio_file' = [audio_file EXCEPT ![t] = NoFile]
    /\ did' = [did EXCEPT ![t] = {}]
    /\ UNCHANGED <<state, recorderVars, workerVars, transcriberVars, envVars,
                   componentVars, notified>>

\* ------------------------------------------------ Transcriber.transcribe
\* what the engine process can write to stderr
Stderrs ==
    { <<>>,
      <<"C", "U", "D", "A">>,
      <<"c", "u", "d", "a">>,
      <<"n", "o", " ", "G", "P", "U">>,
      <<"g", "p", "u">>,
      <<"M", "e", "m", "o", "r", "y">>,
      <<"m", "e", "m", "o", "r", "y", "!">>,
      <<"m", "e", "m", "o">>,
      <<"b", "a", "d">> }

\* "CUDA" in stderr or "GPU" in stderr or "memory" in stderr.lower()
HasGpuMarker_NoLower(err) ==
    \/ Contains(err, <<"C", "U", "D", "A">>)
    \/ Contains(err, <<"G", "P", "U">>)
    \/ Contains(err, <<"m", "e", "m", "o", "r", "y">>)

HasGpuMarker(err) ==
    \/ Contains(err, <<"C", "U", "D", "A">>)
    \/ Contains(err, <<"G", "P", "U">>)
    \/ Contains(lower(err), <<"m", "e", "m", "o", "r", "y">>)

\* how a non-zero exit is classified
ExitKind(err) == IF HasGpuMarker(err) THEN "gpu_error" ELSE "transcription_failed"

\* the dialog show_error is asked for after a non-zero exit
ExitDialog_Silent(err) == "none"

ExitDialog(err) == ExitKind(err)

\* `if not self._cli_error_shown:` / `if not self._model_error_shown:`
ShouldShow_Always(shown) == TRUE

ShouldShow(shown) == ~shown

\* the `finally:` of _transcribe_task: where control goes when the try body ends
Finally_OnlyOnSuccess(raised) == IF raised THEN "exit" ELSE "cleanup"

Finally(raised) == "cleanup"

\* where _transcribe_task goes after transcribe() returned text, or raised
AfterTranscribe_NoTest(raised, text) == IF raised THEN Finally(TRUE) ELSE "set_text"

AfterTranscribe(raised, text) ==
    IF raised THEN Finally(TRUE)
    ELSE IF text # "" THEN "set_text" ELSE Finally(FALSE)

\* subprocess.run calls one transcribe() makes once both files exist: the
\* call sits in straight-line code, every outcome returns
RunCalls_Retry(kind) == IF kind = "text" THEN 1 ELSE 2

RunCalls(kind) == 1

\* result of one transcribe() call, stored in the worker's locals
Returned(w, kind, text, dialog, spawned, raised) ==
    /\ wresult' = [wresult EXCEPT ![w] = kind]
    /\ wtext' = [wtext EXCEPT ![w] = text]
    /\ wdialog' = [wdialog EXCEPT ![w] = dialog]
    /\ wspawns' = [wspawns EXCEPT ![w] = @ + spawned]
    /\ wraised' = [wraised EXCEPT ![w] = raised]
    /\ wpc' = [wpc EXCEPT ![w] = AfterTranscribe(raised, text)]

\* text = self.transcriber.transcribe(audio_file), one call
transcribe(w) ==
    /\ wpc[w] = "transcribe"
    /\ IF ~cli_exists THEN
          /\ cliMissSeen' = TRUE
          /\ IF ShouldShow(cli_error_shown) THEN
                /\ cli_error_shown' = TRUE
                /\ cliNotices' = cliNotices + 1
                \* show_error is outside the try: its exception leaves transcribe
                /\ \E raised \in BOOLEAN :
                      Returned(w, "whisper_not_found", "", "whisper_not_found", 0, raised)
             ELSE
                /\ UNCHANGED <<cli_error_shown, cliNotices>>
                /\ Returned(w, "whisper_not_found", "", "none", 0, FALSE)
          /\ UNCHANGED <<model_error_shown, modelNotices>>
       ELSE IF ~model_exists THEN
          /\ IF ShouldShow(model_error_shown) THEN
                /\ model_error_shown' = TRUE
                /\ modelNotices' = modelNotices + 1
                /\ \E raised \in BOOLEAN :
                      Returned(w, "model_not_found", "", "model_not_found", 0, raised)
             ELSE
                /\ UNCHANGED <<model_error_shown, modelNotices>>
                /\ Returned(w, "model_not_found", "", "none", 0, FALSE)
          /\ UNCHANGED <<cli_error_shown, cliNotices, cliMissSeen>>
       ELSE
          /\ UNCHANGED transcriberVars
          /\ \/ \* subprocess.run raises: caught, logged
                Returned(w, "spawn_raises", "", "none", RunCalls("spawn_raises"), FALSE)
             \/ \* non-zero exit: show_error inside the try
                \E err \in Stderrs :
                   Returned(w, ExitKind(err), "", ExitDialog(err), RunCalls(ExitKind(err)),
                            FALSE)
             \/ \* exit 0: stdout stripped, possibly empty
                \E text \in {"", "text"} :
                   Returned(w, IF text = "" THEN "empty" ELSE "text", text, "none",
                            RunCalls(IF text = "" THEN "empty" ELSE "text"), FALSE)
    /\ UNCHANGED <<state, lock, triggerVars, recorderVars, wfile, wsink, wcalls, wcleaned,
                   envVars, componentVars, notified>>

\* ------------------------------------------------------------ output sink
\* `if not text: return` of set_text
CopiesText_Always(text) == TRUE

CopiesText(text) == text # ""

\* `if not current_settings.auto_paste: return` of paste_text
PasteEnabled_Always == TRUE

PasteEnabled == auto_paste

\* set_text(text): pyperclip.copy, failure logged
set_text(w) ==
    /\ wpc[w] = "set_text"
    /\ \/ /\ CopiesText(wtext[w])
          /\ wsink' = [wsink EXCEPT ![w] = @ \cup {"set"}]
       \/ UNCHANGED wsink
    /\ wcalls' = [wcalls EXCEPT ![w] = Append(@, "set_text")]
    /\ wpc' = [wpc EXCEPT ![w] = "paste_text"]
    /\ UNCHANGED <<state, lock, triggerVars, recorderVars, wfile, wtext, wresult, wspawns,
                   wdialog, wraised, wcleaned, transcriberVars, envVars, componentVars, notified>>

\* paste_text(): Ctrl+V when auto_paste is set, failure logged
paste_text(w) ==
    /\ wpc[w] = "paste_text"
    /\ \/ /\ PasteEnabled
          /\ wsink' = [wsink EXCEPT ![w] = @ \cup {"paste"}]
       \/ UNCHANGED wsink
    /\ wcalls' = [wcalls EXCEPT ![w] = Append(@, "paste_text")]
    /\ wpc' = [wpc EXCEPT ![w] = "play_finish"]
    /\ UNCHANGED <<state, lock, triggerVars, recorderVars, wfile, wtext, wresult, wspawns,
                   wdialog, wraised, wcleaned, transcriberVars, envVars, componentVars, notified>>

\* sounds.play_finish(): starts the cue thread, or raises when it cannot
play_finish(w) ==
    /\ wpc[w] = "play_finish"
    /\ \E raised \in BOOLEAN :
          /\ wraised' = [wraised EXCEPT ![w] = raised]
          /\ wsink' = [wsink EXCEPT ![w] = IF raised THEN @ ELSE @ \cup {"cue"}]
          /\ wpc' = [wpc EXCEPT ![w] = Finally(raised)]
    /\ UNCHANGED <<state, lock, triggerVars, recorderVars, wfile, wtext, wresult, wspawns,
                   wdialog, wcalls, wcleaned, transcriberVars, envVars, componentVars, notified>>

\* ------------------------------------------------- _transcribe_task finally
\* path.unlink() of cleanup_file
Unlink_Keep(fs, f) == fs

Unlink(fs, f) == fs \ {f}

\* Recorder.cleanup_file: unlink if the file exists; a failure is logged
cleanup_file(w) ==
    /\ wpc[w] = "cleanup"
    /\ \/ /\ files' = Unlink(files, wfile[w])
          /\ wcleaned' = [wcleaned EXCEPT ![w] = "removed"]
       \/ /\ wfile[w] \in files
          /\ Cardinality(files) < MaxFiles
          /\ files' = files
          /\ wcleaned' = [wcleaned EXCEPT ![w] = "failed"]
    /\ wpc' = [wpc EXCEPT ![w] = "wait_lock"]
    /\ UNCHANGED <<state, lock, triggerVars, is_recording, stream, orphans, frames,
                   wfile, wtext, wresult, wspawns, wdialog, wraised, wsink, wcalls,
                   transcriberVars, envVars, componentVars, notified>>

\* `with self.lock:` in the finally
WAcquire(w) ==
    /\ wpc[w] = "wait_lock"
    /\ LockFree
    /\ lock' = w
    /\ wpc' = [wpc EXCEPT ![w] = "set_idle"]
    /\ UNCHANGED <<state, triggerVars, recorderVars, wfile, wtext, wresult, wspawns,
                   wdialog, wraised, wsink, wcalls, wcleaned, transcriberVars, envVars, componentVars,
                   notified>>

\* self.state = IDLE
WSetIdle(w) ==
    /\ wpc[w] = "set_idle"
    /\ state' = IDLE
    /\ wpc' = [wpc EXCEPT ![w] = "notify"]
    /\ UNCHANGED <<lock, triggerVars, recorderVars, wfile, wtext, wresult, wspawns,
                   wdialog, wraised, wsink, wcalls, wcleaned, transcriberVars, envVars, componentVars,
                   notified>>

\* self.update_icon_state() by the worker
WNotify(w) ==
    /\ wpc[w] = "notify"
    /\ notified' = PhaseShown
    /\ wpc' = [wpc EXCEPT ![w] = "exit"]
    /\ UNCHANGED <<state, lock, triggerVars, recorderVars, wfile, wtext, wresult, wspawns,
                   wdialog, wraised, wsink, wcalls, wcleaned, transcriberVars, envVars, componentVars>>

\* the lock is released and the worker thread ends
WExit(w) ==
    /\ wpc[w] = "exit"
    /\ lock' = IF lock = w THEN NoOwner ELSE lock
    /\ wpc' = [wpc EXCEPT ![w] = "none"]
    /\ wfile' = [wfile EXCEPT ![w] = NoFile]
    /\ wtext' = [wtext EXCEPT ![w] = ""]
    /\ wresult' = [wresult EXCEPT ![w] = "none"]
    /\ wspawns' = [wspawns EXCEPT ![w] = 0]
    /\ wdialog' = [wdialog EXCEPT ![w] = "none"]
    /\ wraised' = [wraised EXCEPT ![w] = FALSE]
    /\ wsink' = [wsink EXCEPT ![w] = {}]
    /\ wcalls' = [wcalls EXCEPT ![w] = <<>>]
    /\ wcleaned' = [wcleaned EXCEPT ![w] = "no"]
    /\ UNCHANGED <<state, triggerVars, recorderVars, transcriberVars, envVars, componentVars,
                   notified>>

\* ------------------------------------------- HotkeyListener (the watcher)
MaxQueue == 2
MaxPosted == 3

WM_HOTKEY == "WM_HOTKEY"
WM_QUIT == "WM_QUIT"
WM_OTHER == "WM_OTHER"
Messages == {WM_HOTKEY, WM_QUIT, WM_OTHER}

\* `if vk == 0:` of run: the chord resolved to a primary key
KeyResolved_Always(k) == TRUE

KeyResolved(k) == k # 0

\* the try/finally around the message loop: where run goes when the loop is left
LeaveLoop_NoFinally(path) == IF path = "error" THEN "done" ELSE "finally"

LeaveLoop(path) == "finally"

\* the try/except around self.on_trigger(): where run goes after the callback
AfterCallback_Propagates(raised) == IF raised THEN LeaveLoop("error") ELSE "dispatch"

AfterCallback(raised) == "dispatch"

\* run() up to the test of vk
run ==
    /\ hk_pc = "start"
    /\ running' = TRUE
    /\ IF KeyResolved(vk)
       THEN hk_pc' = "register" /\ exit_path' = exit_path
       ELSE hk_pc' = "done" /\ exit_path' = "invalid_key"
    /\ UNCHANGED <<appVars, vk, registered, attempts, queue, msg, posted, taken, calls,
                   raised_at, stop_called, sinkVars, engineVars, pruneVars, parseVars, session>>

\* user32.RegisterHotKey(None, self.hotkey_id, fs_modifiers, vk)
RegisterHotKey ==
    /\ hk_pc = "register"
    /\ attempts' = attempts + 1
    /\ \E ok \in BOOLEAN :
          IF ok
          THEN registered' = TRUE /\ hk_pc' = "loop" /\ exit_path' = exit_path
          ELSE registered' = FALSE /\ hk_pc' = "done" /\ exit_path' = "register_failed"
    /\ UNCHANGED <<appVars, running, vk, queue, msg, posted, taken, calls, raised_at,
                   stop_called, sinkVars, engineVars, pruneVars, parseVars, session>>

\* `while self.running:`
while_running ==
    /\ hk_pc = "loop"
    /\ IF running
       THEN hk_pc' = "get" /\ exit_path' = exit_path
       ELSE hk_pc' = LeaveLoop("flag") /\ exit_path' = "flag"
    /\ UNCHANGED <<appVars, running, vk, registered, attempts, queue, msg, posted, taken,
                   calls, raised_at, stop_called, sinkVars, engineVars, pruneVars, parseVars, session>>

\* the OS posts a message to the listener thread's queue
PostMessage(m) ==
    /\ registered
    /\ Len(queue) < MaxQueue
    /\ posted < MaxPosted
    /\ queue' = Append(queue, m)
    /\ posted' = posted + 1
    /\ UNCHANGED <<appVars, hk_pc, running, vk, registered, attempts, msg, taken, calls,
                   raised_at, stop_called, exit_path, sinkVars, engineVars, pruneVars, parseVars, session>>

\* GetMessageW returns once a message is in the queue: 0 for WM_QUIT, > 0 otherwise
GetMessageW ==
    /\ hk_pc = "get"
    /\ queue # <<>>
    /\ queue' = Tail(queue)
    /\ msg' = Head(queue)
    /\ IF Head(queue) = WM_QUIT
       THEN hk_pc' = LeaveLoop("quit") /\ exit_path' = "quit" /\ taken' = taken
       ELSE IF Head(queue) = WM_HOTKEY
       THEN hk_pc' = "callback" /\ exit_path' = exit_path /\ taken' = taken + 1
       ELSE hk_pc' = "dispatch" /\ exit_path' = exit_path /\ taken' = taken
    /\ UNCHANGED <<appVars, running, vk, registered, attempts, posted, calls, raised_at,
                   stop_called, sinkVars, engineVars, pruneVars, parseVars, session>>

\* GetMessageW returns -1: logged, sleep, continue
GetMessageW_error ==
    /\ hk_pc = "get"
    /\ hk_pc' = "loop"
    /\ UNCHANGED <<appVars, running, vk, registered, attempts, queue, msg, posted, taken,
                   calls, raised_at, stop_called, exit_path, sinkVars, engineVars, pruneVars, parseVars, session>>

\* self.on_trigger() inside its try/except Exception
on_trigger ==
    /\ hk_pc = "callback"
    /\ calls' = calls + 1
    /\ \E raised \in BOOLEAN :
          /\ raised_at' = IF raised THEN calls + 1 ELSE raised_at
          /\ hk_pc' = AfterCallback(raised)
          /\ exit_path' = IF AfterCallback(raised) = "dispatch" THEN exit_path ELSE "error"
    /\ UNCHANGED <<appVars, running, vk, registered, attempts, queue, msg, posted, taken,
                   stop_called, sinkVars, engineVars, pruneVars, parseVars, session>>

\* TranslateMessage / DispatchMessageW; an exception is logged by the loop's
\* `except Exception`, and one raised by that handler leaves the loop
DispatchMessageW ==
    /\ hk_pc = "dispatch"
    /\ \/ hk_pc' = "loop" /\ exit_path' = exit_path
       \/ hk_pc' = LeaveLoop("error") /\ exit_path' = "error"
    /\ UNCHANGED <<appVars, running, vk, registered, attempts, queue, msg, posted, taken,
                   calls, raised_at, stop_called, sinkVars, engineVars, pruneVars, parseVars, session>>

\* finally: user32.UnregisterHotKey(None, self.hotkey_id); run returns
UnregisterHotKey ==
    /\ hk_pc = "finally"
    /\ registered' = FALSE
    /\ hk_pc' = "done"
    /\ UNCHANGED <<appVars, running, vk, attempts, queue, msg, posted, taken, calls,
                   raised_at, stop_called, exit_path, sinkVars, engineVars, pruneVars, parseVars, session>>

\* HotkeyListener.stop(), called from exit_app on another thread
stop ==
    /\ ~stop_called
    /\ stop_called' = TRUE
    /\ running' = FALSE
    /\ UNCHANGED <<appVars, hk_pc, vk, registered, attempts, queue, msg, posted, taken,
                   calls, raised_at, exit_path, sinkVars, engineVars, pruneVars, parseVars, session>>

ListenerInit ==
    /\ AppInit
    /\ ListenerStart
    /\ vk \in KeyCodes
    /\ SinkStart
    /\ cfg = DefaultCfg
    /\ result = NoResult
    /\ EngineStart
    /\ PruneStart
    /\ temp_dir = [n \in OldNames |-> NoEntry]
    /\ ParseStart
    /\ hotkey_arg = DefaultChord
    /\ session = <<>>

\* the steps the listener thread takes by itself
ListenerStep ==
    \/ run
    \/ RegisterHotKey
    \/ while_running
    \/ GetMessageW
    \/ on_trigger
    \/ DispatchMessageW
    \/ UnregisterHotKey

ListenerNext ==
    \/ ListenerStep
    \/ GetMessageW_error
    \/ \E m \in Messages : PostMessage(m)
    \/ stop

ListenerSpec == ListenerInit /\ [][ListenerNext]_vars

\* The listener thread keeps running while it can take a step; nothing makes
\* the OS post a message or GetMessageW fail.
ListenerLiveSpec == ListenerInit /\ [][ListenerNext]_vars /\ WF_vars(ListenerStep)

\* ------------------------------------- the output sink called on its own
MaxSinkCalls == 3

\* texts a caller can hand to set_text
Texts == {"", "a", "b"}

\* set_text(text) called by any caller
sink_set_text(text) ==
    /\ sink_n < MaxSinkCalls
    /\ sink_n' = sink_n + 1
    /\ sink_last' = <<"set_text", text>>
    /\ IF CopiesText(text)
       THEN \/ clipboard' = text /\ copies' = copies + 1
            \/ \* pyperclip.copy raises: logged
               UNCHANGED <<clipboard, copies>>
       ELSE UNCHANGED <<clipboard, copies>>
    /\ UNCHANGED <<appVars, listenerVars, keystrokes, engineVars, pruneVars, parseVars, session>>

\* paste_text() called by any caller
sink_paste_text ==
    /\ sink_n < MaxSinkCalls
    /\ sink_n' = sink_n + 1
    /\ sink_last' = <<"paste_text", "">>
    /\ IF PasteEnabled
       THEN \/ keystrokes' = keystrokes + 1
            \/ \* the keyboard controller raises: logged
               UNCHANGED keystrokes
       ELSE UNCHANGED keystrokes
    /\ UNCHANGED <<appVars, listenerVars, clipboard, copies, engineVars, pruneVars, parseVars, session>>

SinkInit ==
    /\ AppInit
    /\ ListenerStart
    /\ vk = VK_H
    /\ SinkStart
    /\ cfg = DefaultCfg
    /\ result = NoResult
    /\ EngineStart
    /\ PruneStart
    /\ temp_dir = [n \in OldNames |-> NoEntry]
    /\ ParseStart
    /\ hotkey_arg = DefaultChord
    /\ session = <<>>

SinkNext ==
    \/ \E text \in Texts : sink_set_text(text)
    \/ sink_paste_text

SinkSpec == SinkInit /\ [][SinkNext]_vars

\* -------------------------------- one engine invocation, files present
CliPath == "whisper-cli.exe"
ModelPath == "ggml-small.bin"
AudioPath == "rec_1.wav"

\* configurations: current_settings as transcribe reads it; temperature is
\* held as its tenths (0 is 0.0, 2 is 0.2, 10 is 1.0)
Configs ==
    [language : {<<"j", "a">>, <<"J", "P", " ", "(", "j", "a", ")">>, <<"(", "j", ")">>},
     initial_prompt : {"", "hello"},
     carry_initial_prompt : BOOLEAN,
     best_of : {1, 5, 12},
     beam_size : {5, 8},
     temperature : {0, 2, 10}]

IsLower(c) == \E i \in 1..Len(LowerCase) : LowerCase[i] = c

\* the matches of \(([a-z]{2,})\) in s, as <<position of "(", position of ")">>
CodeMatches(s) ==
    {m \in (1..Len(s)) \X (1..Len(s)) :
        /\ s[m[1]] = "("
        /\ s[m[2]] = ")"
        /\ m[2] - m[1] - 1 >= 2
        /\ \A k \in (m[1] + 1)..(m[2] - 1) : IsLower(s[k])}

\* extract_language_code: the group of the leftmost match, else the string
extract_language_code(s) ==
    IF CodeMatches(s) = {} THEN s
    ELSE LET m == CHOOSE x \in CodeMatches(s) : \A y \in CodeMatches(s) : x[1] <= y[1]
         IN SubSeq(s, m[1] + 1, m[2] - 1)

\* `value != default` decides whether an option is passed
IsDefault_Never(v, d) == FALSE

IsDefault(v, d) == v = d

\* the argument vector transcribe builds
BuildCmd(c, audio) ==
    <<CliPath, "-m", ModelPath, "-f", audio, "-l", Join(extract_language_code(c.language)),
      "-nt">>
    \o (IF c.initial_prompt # "" THEN <<"--prompt", c.initial_prompt>> ELSE <<>>)
    \o (IF c.carry_initial_prompt THEN <<"--carry-initial-prompt">> ELSE <<>>)
    \o (IF ~IsDefault(c.best_of, 5) THEN <<"--best-of", StrInt(c.best_of)>> ELSE <<>>)
    \o (IF ~IsDefault(c.beam_size, 5) THEN <<"--beam-size", StrInt(c.beam_size)>> ELSE <<>>)
    \o (IF ~IsDefault(c.temperature, 0)
        THEN <<"--temperature", StrFloat(c.temperature)>> ELSE <<>>)

\* what the engine can write to stdout
Stdouts ==
    { <<>>,
      <<" ", "\n">>,
      <<"a">>,
      <<" ", "a", " ", "b", "\n">>,
      <<"a", "\n", "b">>,
      <<"a", "\t", "b", " ">> }

\* what subprocess.run can do: raise, exit 0 with some stdout, exit 1 with
\* some stderr
EngineResults ==
    {[raises |-> TRUE, returncode |-> 0, stdout |-> <<>>, stderr |-> <<>>]}
    \cup {[raises |-> FALSE, returncode |-> 0, stdout |-> o, stderr |-> <<>>] : o \in Stdouts}
    \cup {[raises |-> FALSE, returncode |-> 1, stdout |-> <<>>, stderr |-> e] : e \in Stderrs}

\* result.stdout.strip().replace(" ", "")
CleanText(out) == replace(strip(out), " ")

\* what transcribe returns and reports for a process result
Outcome(r) ==
    IF r.raises
    THEN [done |-> TRUE, kind |-> "spawn_raises", text |-> <<>>, reported |-> <<>>]
    ELSE IF r.returncode # 0
    THEN [done |-> TRUE, kind |-> ExitKind(r.stderr), text |-> <<>>,
          reported |-> IF ExitDialog(r.stderr) = "none" THEN <<>>
                       ELSE <<ExitDialog(r.stderr)>>]
    ELSE [done |-> TRUE,
          kind |-> IF CleanText(r.stdout) = <<>> THEN "empty" ELSE "text",
          text |-> CleanText(r.stdout), reported |-> <<>>]

\* transcribe(audio_file) from the command construction on
run_engine ==
    /\ ~outcome.done
    /\ cmd' = BuildCmd(cfg, AudioPath)
    /\ outcome' = Outcome(result)
    /\ UNCHANGED <<appVars, listenerVars, sinkVars, cfg, result, pruneVars, parseVars, session>>

EngineInit ==
    /\ AppInit
    /\ cli_exists
    /\ model_exists
    /\ ListenerStart
    /\ vk = VK_H
    /\ SinkStart
    /\ cfg \in Configs
    /\ result \in EngineResults
    /\ EngineStart
    /\ PruneStart
    /\ temp_dir = [n \in OldNames |-> NoEntry]
    /\ ParseStart
    /\ hotkey_arg = DefaultChord
    /\ session = <<>>

EngineSpec == EngineInit /\ [][run_engine]_vars

\* ------------------------------ Recorder.__init__: pruning old artifacts
\* expiration = 24 * 60 * 60
expiration == 86400

\* now - mtime of the entries found: one hour, exactly one day, one second
\* more
Ages == {3600, 86400, 86401}

\* what temp_dir can hold: artifact files, a directory named like one, files
\* with other names
Entries ==
    {NoEntry} \cup [kind : {"rec_file", "rec_dir", "other_file"}, age : Ages]

\* `if now - mtime > expiration:`
Expired_Inclusive(age) == age >= expiration

Expired(age) == age > expiration

\* self.temp_dir.mkdir(parents=True, exist_ok=True): raises only when the
\* directory is not there and cannot be made; then nothing is pruned
mkdir ==
    /\ rec_pc = "new"
    /\ \/ rec_pc' = "glob"
       \/ /\ \A n \in OldNames : temp_dir[n] = NoEntry
          /\ rec_pc' = "constructed"
    /\ UNCHANGED <<appVars, listenerVars, sinkVars, engineVars, temp_dir, todo, unlinked,
                   unlink_failed, parseVars, session>>

\* self.temp_dir.glob("rec_*.wav")
glob ==
    /\ rec_pc = "glob"
    /\ todo' = {n \in OldNames : temp_dir[n].kind \in {"rec_file", "rec_dir"}}
    /\ rec_pc' = "visit"
    /\ UNCHANGED <<appVars, listenerVars, sinkVars, engineVars, temp_dir, unlinked,
                   unlink_failed, parseVars, session>>

\* one turn of the loop of _cleanup_old_files: is_file, stat, the age test and
\* unlink in its own try/except
cleanup_old_file(n) ==
    /\ rec_pc = "visit"
    /\ n \in todo
    /\ todo' = todo \ {n}
    /\ IF temp_dir[n].kind = "rec_file" /\ Expired(temp_dir[n].age)
       THEN \/ unlinked' = unlinked \cup {n} /\ unlink_failed' = unlink_failed
            \/ \* f.unlink() raises: logged, the loop goes on
               unlink_failed' = unlink_failed \cup {n} /\ unlinked' = unlinked
       ELSE UNCHANGED <<unlinked, unlink_failed>>
    /\ UNCHANGED <<appVars, listenerVars, sinkVars, engineVars, temp_dir, rec_pc, parseVars, session>>

\* the loop is over; __init__ returns
constructed ==
    /\ rec_pc = "visit"
    /\ todo = {}
    /\ rec_pc' = "constructed"
    /\ UNCHANGED <<appVars, listenerVars, sinkVars, engineVars, temp_dir, todo, unlinked,
                   unlink_failed, parseVars, session>>

PruneInit ==
    /\ AppInit
    /\ ListenerStart
    /\ vk = VK_H
    /\ SinkStart
    /\ cfg = DefaultCfg
    /\ result = NoResult
    /\ EngineStart
    /\ PruneStart
    /\ temp_dir \in [OldNames -> Entries]
    /\ ParseStart
    /\ hotkey_arg = DefaultChord
    /\ session = <<>>

PruneNext ==
    \/ mkdir
    \/ glob
    \/ \E n \in OldNames : cleanup_old_file(n)
    \/ constructed

PruneSpec == PruneInit /\ [][PruneNext]_vars

\* ------------------------------------ HotkeyListener.parse_hotkey
MaxParts == 2

MOD_ALT == 1
MOD_CONTROL == 2
MOD_SHIFT == 4
MOD_WIN == 8

\* the keys of the MODIFIERS dict
ModifierKeys ==
    { <<"<", "c", "t", "r", "l", ">">>, <<"<", "a", "l", "t", ">">>,
      <<"<", "s", "h", "i", "f", "t", ">">>, <<"<", "w", "i", "n", ">">>,
      <<"c", "t", "r", "l">>, <<"a", "l", "t">>, <<"s", "h", "i", "f", "t">>,
      <<"w", "i", "n">> }

\* MODIFIERS[part]
MODIFIERS ==
    [part \in ModifierKeys |->
        CASE part \in {<<"<", "c", "t", "r", "l", ">">>, <<"c", "t", "r", "l">>} -> MOD_CONTROL
          [] part \in {<<"<", "a", "l", "t", ">">>, <<"a", "l", "t">>} -> MOD_ALT
          [] part \in {<<"<", "s", "h", "i", "f", "t", ">">>, <<"s", "h", "i", "f", "t">>} ->
                MOD_SHIFT
          [] part \in {<<"<", "w", "i", "n", ">">>, <<"w", "i", "n">>} -> MOD_WIN]

\* a | b
BitOr_Add(a, b) == a + b

RECURSIVE BitOr(_, _)
BitOr(a, b) ==
    IF a = 0 THEN b
    ELSE IF b = 0 THEN a
    ELSE (IF a % 2 = 1 \/ b % 2 = 1 THEN 1 ELSE 0) + 2 * BitOr(a \div 2, b \div 2)

\* str.split('+')
RECURSIVE split(_)
split(s) ==
    IF \E i \in 1..Len(s) : s[i] = "+"
    THEN LET i == CHOOSE j \in 1..Len(s) : s[j] = "+" /\ \A k \in 1..(j - 1) : s[k] # "+"
         IN <<SubSeq(s, 1, i - 1)>> \o split(SubSeq(s, i + 1, Len(s)))
    ELSE <<s>>

UpperChar(c) ==
    IF \E i \in 1..Len(LowerCase) : LowerCase[i] = c
    THEN UpperCase[CHOOSE i \in 1..Len(LowerCase) : LowerCase[i] = c]
    ELSE c

\* ord(c) of a letter or a digit
ord(c) ==
    IF \E i \in 1..Len(UpperCase) : UpperCase[i] = c
    THEN 64 + (CHOOSE i \in 1..Len(UpperCase) : UpperCase[i] = c)
    ELSE IF \E i \in 1..Len(LowerCase) : LowerCase[i] = c
    THEN 96 + (CHOOSE i \in 1..Len(LowerCase) : LowerCase[i] = c)
    ELSE 47 + (CHOOSE i \in 1..Len(Digits) : Digits[i] = c)

IsDigit(c) == \E i \in 1..Len(Digits) : Digits[i] = c

\* int(s) succeeds: a non-empty run of decimal digits
IsInt(s) == s # <<>> /\ \A i \in 1..Len(s) : IsDigit(s[i])

\* int(s)
RECURSIVE int(_)
int(s) ==
    IF s = <<>> THEN 0
    ELSE 10 * int(SubSeq(s, 1, Len(s) - 1)) + (ord(s[Len(s)]) - 48)

\* one turn of the loop of parse_hotkey: the new fs_modifiers and vk
ParsePart(part0, acc) ==
    LET part == strip(part0)
        clean_part == replace(replace(part, "<"), ">")
    IN IF part \in ModifierKeys
       THEN [acc EXCEPT !.fs_modifiers = BitOr(@, MODIFIERS[part])]
       ELSE IF Len(clean_part) = 1
       THEN [acc EXCEPT !.vk = ord(UpperChar(clean_part[1]))]
       ELSE IF clean_part # <<>> /\ clean_part[1] = "f" /\ IsInt(Tail(clean_part))
       THEN [acc EXCEPT !.vk = 112 + (int(Tail(clean_part)) - 1)]
       ELSE acc

RECURSIVE ParseParts(_, _)
ParseParts(parts, acc) ==
    IF parts = <<>> THEN acc ELSE ParseParts(Tail(parts), ParsePart(Head(parts), acc))

\* parse_hotkey on self.hotkey_str
parse_hotkey(s) == ParseParts(split(s), [done |-> TRUE, fs_modifiers |-> 0, vk |-> 0])

\* the tokens chords are written with
Tokens ==
    { <<"c", "t", "r", "l">>, <<"<", "c", "t", "r", "l", ">">>, <<"A", "l", "t">>,
      <<"<", "S", "H", "I", "F", "T", ">">>, <<"w", "i", "n">>,
      <<"h">>, <<"H">>, <<"1">>, <<" ", "a", " ">>,
      <<"f", "5">>, <<"F", "1", "2">>, <<"<", "f", "1", ">">>,
      <<"f", "o", "o">>, <<"s", "p", "a", "c", "e">>, <<"<", "c", "t", "r", "l">> }

\* "+".join(parts)
RECURSIVE JoinPlus(_)
JoinPlus(parts) ==
    IF Len(parts) = 1 THEN parts[1] ELSE parts[1] \o <<"+">> \o JoinPlus(Tail(parts))

\* chords of up to MaxParts tokens
ChordParts == UNION {[1..n -> Tokens] : n \in 1..MaxParts}

\* HotkeyListener.__init__: self.hotkey_str = hotkey_str.lower()
HotkeyListener_init ==
    /\ hotkey_str = <<>>
    /\ hotkey_str' = lower(hotkey_arg)
    /\ UNCHANGED <<appVars, listenerVars, sinkVars, engineVars, pruneVars, hotkey_arg, parsed, session>>

\* fs_modifiers, vk = self.parse_hotkey() at the head of run()
run_parse_hotkey ==
    /\ hotkey_str # <<>>
    /\ ~parsed.done
    /\ parsed' = parse_hotkey(hotkey_str)
    /\ UNCHANGED <<appVars, listenerVars, sinkVars, engineVars, pruneVars, hotkey_arg,
                   hotkey_str, session>>

ParseInit ==
    /\ AppInit
    /\ ListenerStart
    /\ vk = VK_H
    /\ SinkStart
    /\ cfg = DefaultCfg
    /\ result = NoResult
    /\ EngineStart
    /\ PruneStart
    /\ temp_dir = [n \in OldNames |-> NoEntry]
    /\ ParseStart
    /\ hotkey_arg \in {DefaultChord} \cup {JoinPlus(c) : c \in ChordParts}
    /\ session = <<>>

ParseNext ==
    \/ HotkeyListener_init
    \/ run_parse_hotkey

ParseSpec == ParseInit /\ [][ParseNext]_vars

\* ------------------- the Recorder as on_hotkey and the worker drive it
\* Each handler runs under MainApp.lock from its read of the phase to its
\* write, so here a handler is one step; recognition is left out.

\* the other fields of the application, untouched here
NotRecorder ==
    <<lock, triggerVars, workerVars, transcriberVars, envVars, notified,
      listenerVars, sinkVars, engineVars, pruneVars, parseVars>>

\* on_hotkey in IDLE: start_recording
rec_start ==
    /\ state = IDLE
    /\ \E o \in StartOutcomes : recorder_start(o)
    /\ session' = <<>>
    /\ state' = RECORDING
    /\ UNCHANGED NotRecorder

\* the audio thread delivers a block
rec_callback ==
    /\ stream = "active"
    /\ Len(frames) < MaxBlocks
    /\ \E s \in Samples : frames' = Append(frames, s) /\ session' = Append(session, s)
    /\ UNCHANGED <<state, is_recording, stream, orphans, files, NotRecorder>>

\* on_hotkey in RECORDING: stop_and_transcribe
rec_stop ==
    /\ state = RECORDING
    /\ \E f \in FileIds \cup {NoFile} :
          /\ \E o \in StopOutcomes(FALSE) :
                /\ recorder_stop(o, FALSE, f)
                /\ session' = IF o \in {"not_recording", "stop_raises", "close_raises"}
                              THEN session ELSE <<>>
          /\ state' = IF NoArtifact(f) THEN IDLE ELSE TRANSCRIBING
    /\ UNCHANGED NotRecorder

\* the finally of _transcribe_task: cleanup_file, then IDLE
rec_cleanup_file ==
    /\ state = TRANSCRIBING
    /\ \/ \E f \in files : files' = Unlink(files, f)
       \/ Cardinality(files) < MaxFiles /\ files' = files
    /\ state' = IDLE
    /\ UNCHANGED <<is_recording, stream, orphans, frames, session, NotRecorder>>

RecorderInit == Init

RecorderNext ==
    \/ rec_start
    \/ rec_callback
    \/ rec_stop
    \/ rec_cleanup_file

RecorderSpec == RecorderInit /\ [][RecorderNext]_vars

\* ---------------------------------------------------------- specification
HandlerStep(t) ==
    \/ on_hotkey(t)
    \/ start_recording(t)
    \/ set_recording(t)
    \/ stop_and_transcribe(t)
    \/ set_idle(t)
    \/ set_transcribing(t)
    \/ update_icon_state(t)
    \/ spawn(t)
    \/ release(t)

WorkerStep(w) ==
    \/ transcribe(w)
    \/ set_text(w)
    \/ paste_text(w)
    \/ play_finish(w)
    \/ cleanup_file(w)
    \/ WSetIdle(w)
    \/ WNotify(w)
    \/ WExit(w)

Next ==
    \/ \E t \in Threads : Trigger(t)
    \/ \E t \in Threads : Acquire(t)
    \/ \E t \in Threads : HandlerStep(t)
    \/ \E w \in Workers : WorkerStep(w)
    \/ \E w \in Workers : WAcquire(w)
    \/ callback

Spec == Init /\ [][Next]_vars

\* Threads that are runnable keep running: a handler inside on_hotkey and a
\* worker thread always take their next step; a worker waiting for the lock
\* gets it once it is free often enough.
LiveSpec ==
    /\ Init
    /\ [][Next]_vars
    /\ \A t \in Threads : WF_vars(HandlerStep(t))
    /\ \A w \in Workers : WF_vars(WorkerStep(w))
    /\ \A w \in Workers : SF_vars(WAcquire(w))

\* ------------------------------------------------------------ properties
AllowedSteps ==
    {<<IDLE, RECORDING>>, <<RECORDING, TRANSCRIBING>>,
     <<RECORDING, IDLE>>, <<TRANSCRIBING, IDLE>>}

\* C1: whatever the interleaving of trigger threads and workers, every change
\* of the phase is one of IDLE->RECORDING, RECORDING->TRANSCRIBING,
\* RECORDING->IDLE, TRANSCRIBING->IDLE.
C1_PhaseSteps == [][state' # state => <<state, state'>> \in AllowedSteps]_vars

\* a worker has just taken the phase from TRANSCRIBING back to IDLE while a
\* second trigger is already waiting for the lock
C1_Witness ==
    \E w \in Workers, t \in Threads :
        wpc[w] = "notify" /\ state = IDLE /\ pc[t] = "wait_lock"

\* C2: a trigger that reads TRANSCRIBING under the lock leaves the phase
\* TRANSCRIBING, opens no stream, starts no worker, writes no phase and emits
\* no notification: all it does afterwards is release the lock.
C2_IgnoredWhileTranscribing ==
    \A t \in Threads :
        seen[t] = TRANSCRIBING =>
            /\ state = TRANSCRIBING
            /\ did[t] = {}
            /\ pc[t] = "release"
            /\ startOutcome[t] = "none"
            /\ stopOutcome[t] = "none"

\* one trigger is being ignored while another already waits and the worker
\* is still inside transcribe
C2_Witness ==
    \E t \in Threads, u \in Threads, w \in Workers :
        /\ seen[t] = TRANSCRIBING
        /\ u # t
        /\ pc[u] = "wait_lock"
        /\ wpc[w] = "transcribe"

\* capture streams opened and not closed
OpenStreams == orphans + Dropped

\* recognition worker threads alive
RunningWorkers == Cardinality({w \in Workers : wpc[w] # "none"})

\* C3: at most one capture stream is open, at most one recognition worker
\* runs, and no capture stream is open while a worker runs.
C3_OneStreamOneWorker ==
    /\ OpenStreams <= 1
    /\ RunningWorkers <= 1
    /\ ~(OpenStreams >= 1 /\ RunningWorkers >= 1)

\* C4: whenever the phase is TRANSCRIBING it eventually becomes IDLE, for
\* every outcome of transcribe, delivery and cleanup.
C4_TranscribingLeadsToIdle == (state = TRANSCRIBING) ~> (state = IDLE)

\* a worker whose try body raised has put the phase back to IDLE
C4_Witness ==
    \E w \in Workers : wraised[w] /\ wpc[w] = "exit" /\ state = IDLE

NoArtifactOutcomes ==
    {"not_recording", "discard", "no_frames", "silent",
     "stop_raises", "close_raises", "save_raises"}

\* C5: when stop() returns no artifact, the trigger hands nothing to
\* recognition, starts no worker, never makes the phase TRANSCRIBING and
\* leaves it IDLE.
C5_NoArtifactGoesIdle ==
    \A t \in Threads :
        stopOutcome[t] \in NoArtifactOutcomes =>
            /\ audio_file[t] = NoFile
            /\ "spawn" \notin did[t]
            /\ state # TRANSCRIBING
            /\ pc[t] \in {"set_idle", "notify", "release"}
            /\ pc[t] \in {"notify", "release"} => state = IDLE
            /\ \A w \in Workers : wpc[w] = "none"

\* an all-zero capture was stopped and the trigger ends in IDLE
C5_Witness ==
    \E t \in Threads :
        /\ stopOutcome[t] = "silent"
        /\ frames = <<0>>
        /\ pc[t] = "release"
        /\ state = IDLE

\* stop() reached its silence check on a non-empty capture
Checked(t) == stopOutcome[t] \in {"silent", "saved"} /\ frames # <<>>

\* C6 as claimed: a capture whose peak equals the threshold is rejected and
\* the phase goes to IDLE.
C6_EqualPeakRejected ==
    \A t \in Threads :
        (Checked(t) /\ max_amp(frames) = silence_threshold) =>
            /\ stopOutcome[t] = "silent"
            /\ audio_file[t] = NoFile
            /\ pc[t] = "release" => state = IDLE

\* C6 amended: the silence check rejects exactly the captures whose peak is
\* strictly below the threshold; a peak equal to the threshold is saved as an
\* artifact and the phase goes to TRANSCRIBING.
C6_StrictlyBelowRejected ==
    \A t \in Threads :
        Checked(t) =>
            /\ stopOutcome[t] = "silent" <=> max_amp(frames) < silence_threshold
            /\ max_amp(frames) = silence_threshold =>
                  /\ audio_file[t] # NoFile
                  /\ pc[t] \in {"set_transcribing", "notify_then_spawn", "spawn"} =>
                        audio_file[t] \in files
                  /\ pc[t] \in {"notify_then_spawn", "spawn", "release"} =>
                        state = TRANSCRIBING

\* a capture with peak equal to the threshold has been saved and the phase is
\* TRANSCRIBING
C6_Witness ==
    \E t \in Threads :
        /\ stopOutcome[t] = "saved"
        /\ max_amp(frames) = silence_threshold
        /\ pc[t] = "release"
        /\ state = TRANSCRIBING

\* the worker has made the TRANSCRIBING->IDLE transition
BackToIdle(w) == wpc[w] \in {"notify", "exit"}

\* C7 as claimed: in every state reached by TRANSCRIBING->IDLE the cycle's
\* artifact no longer exists.
C7_ArtifactGoneAtIdle ==
    \A w \in Workers : BackToIdle(w) => wfile[w] \notin files

\* C7 amended: cleanup_file has run on the cycle's artifact before the phase
\* is set back to IDLE, whatever transcribe did; the artifact no longer
\* exists unless the unlink itself failed.
C7_CleanupBeforeIdle ==
    \A w \in Workers :
        /\ (wpc[w] # "none" /\ state = IDLE) => BackToIdle(w)
        /\ BackToIdle(w) =>
              /\ wcleaned[w] \in {"removed", "failed"}
              /\ wcleaned[w] = "removed" => wfile[w] \notin files
              /\ wcleaned[w] = "failed" => wfile[w] \in files

\* a cycle whose engine run failed ends in IDLE with its artifact deleted
C7_Witness ==
    \E w \in Workers :
        /\ BackToIdle(w)
        /\ state = IDLE
        /\ wresult[w] = "transcription_failed"
        /\ wcleaned[w] = "removed"
        /\ wfile[w] \notin files

\* C8: show_error("whisper_not_found") is called exactly once, on the first
\* attempt that finds the engine missing, show_error("model_not_found") at
\* most once; an attempt that finds a file missing returns empty text and
\* spawns no engine.
C8_NoticeOnce ==
    /\ cliNotices = (IF cliMissSeen THEN 1 ELSE 0)
    /\ modelNotices <= 1
    /\ \A w \in Workers :
          /\ wresult[w] \in {"whisper_not_found", "model_not_found"} =>
                wtext[w] = "" /\ wspawns[w] = 0
          /\ wdialog[w] = "whisper_not_found" => cliNotices = 1
          /\ wdialog[w] = "model_not_found" => modelNotices = 1

\* a later attempt finds the engine still missing: no dialog, no engine
C8_Witness ==
    \E w \in Workers :
        /\ wresult[w] = "whisper_not_found"
        /\ wdialog[w] = "none"
        /\ cliNotices = 1
        /\ wspawns[w] = 0

\* C9: when opening or starting the stream failed, the phase is IDLE once
\* the trigger has been handled.
C9_FailedStartEndsIdle ==
    \A t \in Threads :
        (startOutcome[t] \in {"fail_open", "fail_start"} /\ pc[t] = "release") =>
            state = IDLE

\* C10 as claimed: only EngineNotFound and ModelNotFound show a dialog.
C10_OnlyNotFoundDialogs ==
    \A w \in Workers : wdialog[w] \in {"none", "whisper_not_found", "model_not_found"}

\* C10 amended: a dialog is requested for EngineNotFound and ModelNotFound
\* (once each) and for every non-zero engine exit, classified gpu_error or
\* transcription_failed; a spawn exception, an empty result and a delivered
\* or undelivered text request none.
C10_DialogKinds ==
    \A w \in Workers :
        /\ wresult[w] \in {"gpu_error", "transcription_failed"} => wdialog[w] = wresult[w]
        /\ wresult[w] \in {"spawn_raises", "empty", "text", "none"} => wdialog[w] = "none"
        /\ wdialog[w] # "none" => wdialog[w] = wresult[w]

\* a cycle that ended with a GPU failure showed the gpu_error dialog and the
\* phase is back to IDLE
C10_Witness ==
    \E w \in Workers :
        /\ wresult[w] = "gpu_error"
        /\ wdialog[w] = "gpu_error"
        /\ BackToIdle(w)
        /\ state = IDLE

\* the worker has left the try body of _transcribe_task
PastDelivery(w) == wpc[w] \in {"cleanup", "wait_lock", "set_idle", "notify", "exit"}

\* C11: in a recognition cycle set_text and then paste_text are called, once
\* each, exactly when transcribe returned non-empty text; when the engine
\* exits 0 with empty output nothing is handed to the sink, no dialog is
\* shown and the cycle ends with the phase IDLE.
C11_SinkIffText ==
    \A w \in Workers :
        /\ wcalls[w] \in {<<>>, <<"set_text">>, <<"set_text", "paste_text">>}
        /\ wcalls[w] # <<>> => wtext[w] # ""
        /\ (wtext[w] # "" /\ (PastDelivery(w) \/ wpc[w] = "play_finish")) =>
              wcalls[w] = <<"set_text", "paste_text">>
        /\ wtext[w] = "" => wcalls[w] = <<>> /\ wsink[w] = {}
        /\ wresult[w] = "empty" =>
              /\ wdialog[w] = "none"
              /\ ~wraised[w]
              /\ PastDelivery(w)
              /\ BackToIdle(w) => state = IDLE

\* a cycle whose text was copied to the clipboard is back to IDLE
C11_Witness ==
    \E w \in Workers :
        /\ wresult[w] = "text"
        /\ wcalls[w] = <<"set_text", "paste_text">>
        /\ "set" \in wsink[w]
        /\ BackToIdle(w)
        /\ state = IDLE

\* C12: whatever calls are made, set_text("") leaves the clipboard alone, and
\* with auto_paste off no paste keystroke is ever sent.
C12_SinkGuards ==
    /\ [][(sink_n' = sink_n + 1 /\ sink_last' = <<"set_text", "">>) =>
             (clipboard' = clipboard /\ copies' = copies)]_vars
    /\ [][~auto_paste => keystrokes' = keystrokes]_vars
    /\ [](~auto_paste => keystrokes = 0)

\* with auto_paste off: a text was copied, and both set_text("") and
\* paste_text() have been called since
C12_Witness ==
    /\ ~auto_paste
    /\ sink_n = 3
    /\ copies = 1
    /\ clipboard = "a"
    /\ sink_last \in {<<"paste_text", "">>, <<"set_text", "">>}

C14_UnregisteredOnReturn ==
    /\ hk_pc = "done" => ~registered
    /\ registered => hk_pc \in {"loop", "get", "callback", "dispatch", "finally"}
    /\ hk_pc = "done" =>
          exit_path \in {"invalid_key", "register_failed", "quit", "flag", "error"}

\* run() has returned because an error left the loop, and the hotkey is
\* unregistered
C14_Witness ==
    /\ hk_pc = "done"
    /\ exit_path = "error"
    /\ attempts = 1
    /\ ~registered

\* C15: once stop() has cleared the flag of a listener blocked in
\* GetMessageW, run() eventually returns with the hotkey unregistered.
C15_StopUnblocks ==
    (stop_called /\ ~running /\ hk_pc = "get" /\ registered)
        ~> (hk_pc = "done" /\ ~registered)

\* C16: RegisterHotKey is called at most once; with key code 0 it is never
\* called, and after a failed registration as after key code 0 run() has
\* returned without entering the loop, fetching a message or calling
\* on_trigger.
C16_FailFast ==
    /\ attempts <= 1
    /\ vk = 0 =>
          /\ attempts = 0
          /\ hk_pc \in {"start", "done"}
          /\ hk_pc = "done" => exit_path = "invalid_key"
          /\ ~registered /\ calls = 0 /\ taken = 0 /\ posted = 0
    /\ exit_path = "invalid_key" => vk = 0 /\ hk_pc = "done"
    /\ exit_path = "register_failed" =>
          /\ attempts = 1
          /\ hk_pc = "done"
          /\ ~registered /\ calls = 0 /\ taken = 0 /\ posted = 0

\* the registration failed and stop() was called later: still one attempt
C16_Witness ==
    /\ exit_path = "register_failed"
    /\ hk_pc = "done"
    /\ attempts = 1
    /\ stop_called

\* C17: each WM_HOTKEY fetched is followed by one on_trigger call before the
\* next message is fetched, and after every call, raising or not, the
\* listener goes on to dispatch the message and stays registered.
C17_OneCallPerHotkey ==
    /\ [](hk_pc = "callback" => (msg = WM_HOTKEY /\ taken = calls + 1))
    /\ [](hk_pc # "callback" => taken = calls)
    /\ [][taken' # taken => (taken' = taken + 1 /\ hk_pc' = "callback")]_vars
    /\ [][calls' # calls =>
             (calls' = calls + 1 /\ hk_pc' = "dispatch" /\ registered' /\ queue' = queue)]_vars

\* a callback raised and a later hotkey message was delivered all the same
C17_Witness ==
    /\ raised_at >= 1
    /\ calls > raised_at
    /\ registered
    /\ hk_pc = "dispatch"

\* the decimal text of the configured sample values
IntText(v) == CASE v = 1 -> "1" [] v = 5 -> "5" [] v = 8 -> "8" [] v = 12 -> "12"

TempText(t) == CASE t = 0 -> "0.0" [] t = 2 -> "0.2" [] t = 10 -> "1.0"

CodeText(l) ==
    CASE l = <<"j", "a">> -> "ja"
      [] l = <<"J", "P", " ", "(", "j", "a", ")">> -> "ja"
      [] l = <<"(", "j", ")">> -> "(j)"

\* positions of an option in the argument vector, after the fixed part
OptAt(flag) == {i \in 9..Len(cmd) : cmd[i] = flag}

\* the option is present once, followed by the value
OptWith(flag, value) ==
    /\ Cardinality(OptAt(flag)) = 1
    /\ \A i \in OptAt(flag) : i < Len(cmd) /\ cmd[i + 1] = value

B2N(b) == IF b THEN 1 ELSE 0

\* C18: the argument vector is engine, -m model, -f audio, -l code, -nt and
\* then only options: --best-of, --beam-size, --temperature with the
\* configured value exactly when it differs from 5, 5, 0.0, --prompt exactly
\* when the prompt is non-empty, --carry-initial-prompt exactly when set.
C18_ArgumentVector ==
    outcome.done =>
        /\ Len(cmd) >= 8
        /\ SubSeq(cmd, 1, 8) =
              <<CliPath, "-m", ModelPath, "-f", AudioPath, "-l", CodeText(cfg.language), "-nt">>
        /\ IF cfg.best_of # 5 THEN OptWith("--best-of", IntText(cfg.best_of))
           ELSE OptAt("--best-of") = {}
        /\ IF cfg.beam_size # 5 THEN OptWith("--beam-size", IntText(cfg.beam_size))
           ELSE OptAt("--beam-size") = {}
        /\ IF cfg.temperature # 0 THEN OptWith("--temperature", TempText(cfg.temperature))
           ELSE OptAt("--temperature") = {}
        /\ IF cfg.initial_prompt # "" THEN OptWith("--prompt", cfg.initial_prompt)
           ELSE OptAt("--prompt") = {}
        /\ Cardinality(OptAt("--carry-initial-prompt")) = B2N(cfg.carry_initial_prompt)
        /\ Len(cmd) = 8 + 2 * B2N(cfg.best_of # 5) + 2 * B2N(cfg.beam_size # 5)
                        + 2 * B2N(cfg.temperature # 0) + 2 * B2N(cfg.initial_prompt # "")
                        + B2N(cfg.carry_initial_prompt)

\* best_of 12 and temperature 0.2 are passed, beam_size 5 is left out
C18_Witness ==
    /\ outcome.done
    /\ cfg.best_of = 12
    /\ cfg.beam_size = 5
    /\ cfg.temperature = 2
    /\ cfg.initial_prompt = "hello"
    /\ Len(cmd) = 14

\* the sample error streams that hold "CUDA", "GPU", or "memory" in some
\* letter case
MarkedStderrs ==
    { <<"C", "U", "D", "A">>,
      <<"n", "o", " ", "G", "P", "U">>,
      <<"M", "e", "m", "o", "r", "y">>,
      <<"m", "e", "m", "o", "r", "y", "!">> }

\* C19: after a non-zero exit transcribe returns empty text and reports
\* exactly one error: gpu_error when stderr holds "CUDA", "GPU", or "memory"
\* in any letter case, transcription_failed otherwise.
C19_ExitClassified ==
    (outcome.done /\ ~result.raises /\ result.returncode # 0) =>
        /\ outcome.text = <<>>
        /\ outcome.kind \in {"gpu_error", "transcription_failed"}
        /\ outcome.reported = <<outcome.kind>>
        /\ outcome.kind = "gpu_error" <=> result.stderr \in MarkedStderrs

\* "Memory" with a capital letter was classified as a GPU failure
C19_Witness ==
    /\ outcome.done
    /\ result.returncode # 0
    /\ result.stderr = <<"M", "e", "m", "o", "r", "y">>
    /\ outcome.kind = "gpu_error"
    /\ outcome.reported = <<"gpu_error">>

\* C20: after exit code 0 the returned text is stdout without any of its
\* whitespace characters, leading, trailing or internal.
C20_NoWhitespaceInText ==
    (outcome.done /\ ~result.raises /\ result.returncode = 0) =>
        /\ outcome.text = SelectSeq(result.stdout, LAMBDA c : c \notin Whitespace)
        /\ \A i \in 1..Len(outcome.text) : outcome.text[i] \notin Whitespace

\* C21: a recognition cycle calls subprocess.run at most once: once when the
\* engine and the model exist, whatever the outcome (text, empty output,
\* non-zero exit, exception), and not at all when either is missing.
C21_SpawnAtMostOnce ==
    \A w \in Workers :
        /\ wspawns[w] <= 1
        /\ wresult[w] = "none" => wspawns[w] = 0
        /\ wresult[w] # "none" => (wspawns[w] = 1 <=> (cli_exists /\ model_exists))
        /\ wresult[w] \in {"whisper_not_found", "model_not_found"} => wspawns[w] = 0
        /\ wresult[w] \in {"spawn_raises", "gpu_error", "transcription_failed",
                           "empty", "text"} => wspawns[w] = 1

\* a cycle whose subprocess.run raised is back to IDLE after that one call
C21_Witness ==
    \E w \in Workers :
        /\ wresult[w] = "spawn_raises"
        /\ wspawns[w] = 1
        /\ BackToIdle(w)
        /\ state = IDLE

\* an artifact file last modified more than 24 hours (86400 s) before now
TooOld(n) == temp_dir[n].kind = "rec_file" /\ temp_dir[n].age > 86400

\* C22: construction deletes the artifact files modified more than 24 hours
\* ago and no other entry; a file whose unlink raised is skipped and the
\* files after it are still pruned; the Recorder is constructed with every
\* expired artifact file deleted or logged as failed.
C22_PrunedAtConstruction ==
    /\ unlinked \cap unlink_failed = {}
    /\ \A n \in unlinked \cup unlink_failed : TooOld(n)
    /\ rec_pc = "visit" =>
          \A n \in OldNames \ todo : TooOld(n) => n \in unlinked \cup unlink_failed
    /\ rec_pc = "constructed" =>
          \A n \in OldNames : TooOld(n) <=> n \in unlinked \cup unlink_failed

\* the Recorder is constructed: one expired file could not be deleted, another
\* was deleted, and the file modified exactly 24 hours ago is kept
C22_Witness ==
    /\ rec_pc = "constructed"
    /\ \E a, b, c \in OldNames :
          /\ a \in unlink_failed
          /\ b \in unlinked
          /\ temp_dir[c] = [kind |-> "rec_file", age |-> 86400]
          /\ c \notin unlinked \cup unlink_failed

\* C23: start() on a Recorder that is already started opens no stream and
\* leaves the open stream, is_recording and the blocks recorded so far as
\* they are.
C23_StartNoOp ==
    [][\A t \in Threads :
          (pc[t] = "start_recording" /\ pc'[t] # pc[t] /\ is_recording) =>
              /\ startOutcome'[t] = "already"
              /\ "open" \notin did'[t]
              /\ UNCHANGED <<is_recording, stream, orphans, frames>>]_vars

\* start() returned at once on a Recorder whose stream is running and has
\* delivered a block
C23_Witness ==
    \E t \in Threads :
        /\ startOutcome[t] = "already"
        /\ is_recording
        /\ stream = "active"
        /\ frames # <<>>

\* the modifier flag each sample token stands for, 0 for a token that is no
\* modifier
TokenFlag(tok) ==
    CASE tok = <<"c", "t", "r", "l">> -> 2
      [] tok = <<"<", "c", "t", "r", "l", ">">> -> 2
      [] tok = <<"A", "l", "t">> -> 1
      [] tok = <<"<", "S", "H", "I", "F", "T", ">">> -> 4
      [] tok = <<"w", "i", "n">> -> 8
      [] OTHER -> 0

\* the key code each sample token stands for, 0 for a token that is no key
TokenKey(tok) ==
    CASE tok = <<"h">> -> 72
      [] tok = <<"H">> -> 72
      [] tok = <<"1">> -> 49
      [] tok = <<" ", "a", " ">> -> 65
      [] tok = <<"f", "5">> -> 116
      [] tok = <<"F", "1", "2">> -> 123
      [] tok = <<"<", "f", "1", ">">> -> 112
      [] OTHER -> 0

\* the flag is in the chord
HasFlag(chord, f) == \E i \in 1..Len(chord) : TokenFlag(chord[i]) = f

\* the mask and key code a chord stands for: every modifier flag in it, and
\* the code of its key token (the last one if there are several)
ChordMask(chord) ==
    (IF HasFlag(chord, 1) THEN 1 ELSE 0) + (IF HasFlag(chord, 2) THEN 2 ELSE 0)
    + (IF HasFlag(chord, 4) THEN 4 ELSE 0) + (IF HasFlag(chord, 8) THEN 8 ELSE 0)

ChordKey(chord) ==
    IF \E i \in 1..Len(chord) : TokenKey(chord[i]) # 0
    THEN TokenKey(chord[CHOOSE i \in 1..Len(chord) :
                          /\ TokenKey(chord[i]) # 0
                          /\ \A j \in (i + 1)..Len(chord) : TokenKey(chord[j]) = 0])
    ELSE 0

\* C24: parse_hotkey returns the OR of the flags of the modifier tokens of
\* the chord (ctrl, alt, shift, win, bare or in angle brackets, any letter
\* case), the upper-case character code of a one-character token, 0x70 + N - 1
\* for a token f<N>, and key code 0 when no token is a key.
C24_ParseHotkey ==
    parsed.done =>
        /\ \A chord \in ChordParts :
              hotkey_arg = JoinPlus(chord) =>
                  /\ parsed.fs_modifiers = ChordMask(chord)
                  /\ parsed.vk = ChordKey(chord)
        /\ hotkey_arg = DefaultChord => (parsed.fs_modifiers = 7 /\ parsed.vk = VK_H)

\* "ctrl+<ctrl>": the same flag twice, no key token
C24_Witness ==
    /\ parsed.done
    /\ hotkey_arg = <<"c", "t", "r", "l", "+", "<", "c", "t", "r", "l", ">">>
    /\ parsed.fs_modifiers = 2
    /\ parsed.vk = 0

\* the blocking capture work: recorder.start() and recorder.stop()
CaptureWork == {"start_recording", "stop_and_transcribe"}

\* C25: the lock is not held by a thread that is inside the blocking capture
\* work or inside transcribe, so no trigger and no finishing worker waits for
\* the lock while such work goes on.
C25_LockOnlyForDecision ==
    /\ \A t \in Threads : pc[t] \in CaptureWork => lock # t
    /\ \A w \in Workers : wpc[w] = "transcribe" => lock # w
    /\ \A t \in Threads, w \in Workers :
          (pc[t] \in CaptureWork /\ wpc[w] = "wait_lock") => lock = NoOwner

\* C26: the hotkey listener thread never runs recorder.start(),
\* recorder.stop() or transcribe itself.
C26_WatcherDoesNoWork ==
    /\ startOutcome[HotkeyThread] = "none"
    /\ stopOutcome[HotkeyThread] = "none"
    /\ "open" \notin did[HotkeyThread]

\* no trigger is inside on_hotkey
NoTriggerHandled == \A t \in Threads : pc[t] \in {"idle", "wait_lock"}

\* C27: when the phase is IDLE and no trigger is being handled, the Recorder
\* is not started.
C27_IdleNotStarted == (state = IDLE /\ NoTriggerHandled) => ~is_recording

\* C28: after stop() the listener makes no further on_trigger call.
C28_NoCallbackAfterStop == [][stop_called => calls' = calls]_vars

\* C29: a worker that sent the paste keystroke has set the clipboard to its
\* text before.
C29_PasteOnlyAfterSet ==
    \A w \in Workers : "paste" \in wsink[w] => "set" \in wsink[w]

\* C30: the artifact stop() writes holds exactly the blocks the callback
\* delivered since the start() call of the same capture session, in order,
\* and blocks are appended to the sample store only while the stream runs.
C30_ArtifactIsItsSession ==
    /\ [][files' \ files # {} => frames = session]_vars
    /\ [][(frames' # frames /\ frames' # <<>>) => stream = "active"]_vars

====
